---- MODULE Spec2Model ----
(***************************************************************************)
(* The authenticated request gateway of the storefront client             *)
(* (src/reactF/src/App1.tsx): api.request with its one-shot token refresh  *)
(* and retry, api.logout, and the login handler that creates credentials.  *)
(* The browser is single-threaded: every action below is one run of code   *)
(* between two suspension points (await), so calls interleave only at      *)
(* their awaits.                                                           *)
(***************************************************************************)
EXTENDS Integers, Sequences, FiniteSets, TLC

\* ------------------------------------------------------------------ bounds
NumCalls == 2          \* api.request calls that may be started in one run
MaxLogoutClicks == 1   \* user clicks on a Logout button in one run
MaxAuths == 1          \* submissions of the login / register form in one run
LiveCalls == 2         \* calls started in the runs checked for termination
SessionCalls == 1      \* calls started in the runs with the login form
UiCalls == 3           \* calls of fetchCart and fetchWishlist under way at once
MaxLogouts == 3        \* invocations of api.logout in the runs with the App
MaxEffects == 2        \* activations of fetchInitialData under way at once
LoginCalls == 2        \* the same as UiCalls, in the runs with the dialog
LoginLogouts == 2      \* the same as MaxLogouts, in the runs with the dialog
PairCalls == 2         \* calls started in the runs with concurrent refreshes
ExpiryLogouts == 2     \* the same as MaxLogouts, in the runs with expiring tokens
MaxIssued == 2         \* token pairs the server issues in those runs, the first included
Delay == 2             \* the delay of useDebounce, in ticks of the clock
MaxPages == 2          \* pages the server splits a product list into
MaxLoads == 2          \* fetches of loadProducts in flight at once
CartCalls == 2         \* the same as UiCalls, in the runs with the cart buttons
CartLogouts == 1       \* the same as MaxLogouts, in the runs with the cart buttons

\* --------------------------------------------------------------- constants
\* localStorage.getItem returns null for an absent key; tokens are 1, 2, ...
NoToken == 0
\* the HTTP status that starts the refresh protocol
Unauthorized == 401

Calls == 1..NumCalls

\* The activations the model keeps a record for.
Slots == 1..(IF NumCalls >= UiCalls THEN NumCalls ELSE UiCalls)

\* Response statuses the remote API may answer with: a success, the
\* authorization failure, and a business / server failure.
Statuses == {200, Unauthorized, 500}

\* Response.ok is true for the 2xx statuses.
IsOk(status) == status >= 200 /\ status <= 299

\* The (method, endpoint, body) triples the callers of api.request pass:
\* api.get('/cart') and api.post('/cart/add', {...}).
Requests ==
  { [method |-> "GET", endpoint |-> "/cart", body |-> "null"],
    [method |-> "POST", endpoint |-> "/cart/add", body |-> "item"] }

NoRequest == [method |-> "", endpoint |-> "", body |-> ""]

\* No response held yet (res before the first await completes).
NoResponse == [status |-> 0, attempt |-> 0]

VARIABLES
  localStorage,      \* the keys accessToken, refreshToken and user
  calls,             \* the activations of api.request, one per call
  authChangeEvents,  \* authChange events dispatched on window so far
  logoutCalls,       \* invocations of api.logout so far
  logoutClicks,      \* clicks on a Logout button so far
  issued,            \* token pairs the server has issued so far
  auth,              \* the activation of handleAuth
  authSubmits,       \* submissions of the login / register form so far
  user,              \* App state: the displayed user, NoUser for null
  cart,              \* App state: the displayed cart
  wishlist,          \* App state: the displayed wishlist
  authModalOpen,     \* App state: the login / register dialog is shown
  isLoggedIn,        \* isLoggedIn as the last render of App computed it
  renderPending,     \* a state setter has changed App state since that render
  handled,           \* authChange events handleAuthChange has run for
  callers,           \* per call, the function of App that awaits it
  fetchInitialData,  \* activations awaiting /categories, by captured isLoggedIn
  fetched,           \* the token the last GET /cart and GET /wishlist carried
  search,            \* App state: the content of the search box
  debouncedSearch,   \* useDebounce's state: the published search string
  timers,            \* the timeouts useDebounce has set and not cleared
  quiet,             \* time for which search has kept its value, up to Delay
  selectedCategory,  \* App state: the selected category, "" for none
  sort,              \* App state: the sort order
  page,              \* App state: the page asked for
  pages,             \* App state: the page count of the last response
  products,          \* App state: the product list shown, by its query
  loads,             \* the fetches of loadProducts in flight, oldest first
  loading,           \* App state: a product load is shown as under way
  adding,            \* the activation of addToCart the last click started
  toggling,          \* the activation of toggleWishlist the last click started
  cartOpen           \* App state: the cart sheet is shown

\* The state of the App component and of its effects.
uiVars == << user, cart, wishlist, authModalOpen, isLoggedIn, renderPending,
             handled, callers, fetchInitialData, fetched >>

\* The state of the catalogue: filters, pagination and product list.
shopVars == << search, debouncedSearch, timers, quiet, selectedCategory, sort,
               page, pages, products, loads, loading, adding, toggling,
               cartOpen >>

vars == << localStorage, calls, authChangeEvents, logoutCalls, logoutClicks,
           issued, auth, authSubmits, uiVars, shopVars >>

\* ------------------------------------------------------------ localStorage
NoUser == "null"
Emails == {"neo@shop.io"}
\* The username of a login response; "" stands for a missing or empty one.
Usernames == {"", "neo"}

EmptyStorage ==
  [accessToken |-> NoToken, refreshToken |-> NoToken, user |-> NoUser]

\* Mutant: only the access token is stored.
setTokens_accessOnly(store, data) ==
  [store EXCEPT !.accessToken = data.access_token]

\* localStorage.setItem of the two token keys, in the order of the code.
setTokens(store, data) ==
  [store EXCEPT !.accessToken = data.access_token,
                !.refreshToken = data.refresh_token]

\* The body of a successful login or refresh response: the next token pair.
NewTokens == [access_token |-> issued + 1, refresh_token |-> issued + 1]

NoData == [access_token |-> NoToken, refresh_token |-> NoToken]

\* ---------------------------------------------------------------- api.logout
\* Mutant: logout forgets the user key.
removeCredentials_keepsUser(store) ==
  [store EXCEPT !.accessToken = NoToken, !.refreshToken = NoToken]

\* The three removeItem calls.
removeCredentials(store) ==
  [store EXCEPT !.accessToken = NoToken, !.refreshToken = NoToken,
                !.user = NoUser]

\* window.dispatchEvent(new Event("authChange")): the number dispatched.
dispatchAuthChange(n) == n + 1

\* Mutant: logout removes the two tokens only.
logout_tokensOnly ==
  /\ localStorage' = [localStorage EXCEPT !.accessToken = NoToken,
                                          !.refreshToken = NoToken]
  /\ authChangeEvents' = dispatchAuthChange(authChangeEvents)
  /\ logoutCalls' = logoutCalls + 1

logout ==
  /\ localStorage' = removeCredentials(localStorage)
  /\ authChangeEvents' = dispatchAuthChange(authChangeEvents)
  /\ logoutCalls' = logoutCalls + 1

\* A step that does not invoke api.logout.
noLogout == logoutCalls' = logoutCalls

\* -------------------------------------------------------------- api.request
\* Mutant: the Authorization header is set whatever the token.
makeRequest_alwaysAuthorization(req, token, store) ==
  [ method |-> req.method, endpoint |-> req.endpoint, body |-> req.body,
    authorization |-> << "Bearer", token >>,
    stored |-> [accessToken |-> store.accessToken,
                refreshToken |-> store.refreshToken] ]

\* makeRequest(token): the request handed to fetch.  The Authorization
\* header is set only for a truthy token.  stored is the content of the
\* two token keys at the moment of sending.
makeRequest(req, token, store) ==
  [ method |-> req.method, endpoint |-> req.endpoint, body |-> req.body,
    authorization |-> IF token # NoToken THEN << "Bearer", token >> ELSE << >>,
    stored |-> [accessToken |-> store.accessToken,
                refreshToken |-> store.refreshToken] ]

\* The fetch of /users/refresh with the refresh token in its body.
refreshRequest(token) ==
  [ method |-> "POST", endpoint |-> "/users/refresh", refresh_token |-> token ]

IdleCall ==
  [ pc |-> "idle", req |-> NoRequest, accessToken |-> NoToken,
    refreshToken |-> NoToken, sent |-> << >>, refreshSent |-> << >>,
    first |-> 0, refreshStatus |-> 0, data |-> NoData,
    res |-> NoResponse, error |-> "none", cause |-> "none", logouts |-> 0 ]

\* The catch block of the refresh path, and the missing-refresh-token
\* branch: this.logout() and throw new Error("Session expired...").
\* call is the activation as it stands when the failure happens and cause
\* names the place the failure came from.
sessionExpired(c, call, cause) ==
  /\ logout
  /\ calls' = [calls EXCEPT ![c] = [call EXCEPT !.pc = "failed",
                                                !.error = "session_expired",
                                                !.cause = cause,
                                                !.logouts = @ + 1]]

\* api.request(method, endpoint, body) up to its first await: read the
\* access token and send the first attempt.
firstAttempt(req, store) ==
  LET token == store.accessToken IN
    [IdleCall EXCEPT !.pc = "attempt",
                     !.req = req,
                     !.accessToken = token,
                     !.sent = << makeRequest(req, token, store) >>]

\* A caller outside App starts call c.
Request(c, req) ==
  /\ calls[c].pc = "idle"
  /\ \A d \in 1..(c - 1) : calls[d].pc # "idle"
  /\ calls' = [calls EXCEPT ![c] = firstAttempt(req, localStorage)]
  /\ noLogout
  /\ UNCHANGED << localStorage, authChangeEvents, logoutClicks, issued, auth,
                  authSubmits,
                  uiVars, shopVars >>

\* Mutant: a failed first response of any status logs the user out.
returnFirst_logoutOnFailure(c, status) ==
  /\ calls' = [calls EXCEPT ![c].pc = "done", ![c].first = status,
                            ![c].res = [status |-> status, attempt |-> 1]]
  /\ IF IsOk(status)
     THEN noLogout /\ UNCHANGED << localStorage, authChangeEvents >>
     ELSE logout

\* What api.request does with a first response whose status is not 401:
\* it falls through to return res.
returnFirst(c, status) ==
  /\ calls' = [calls EXCEPT ![c].pc = "done", ![c].first = status,
                            ![c].res = [status |-> status, attempt |-> 1]]
  /\ noLogout
  /\ UNCHANGED << localStorage, authChangeEvents >>

\* Mutant: the refresh token is not checked before the refresh call.
onUnauthorized_unchecked(c, status) ==
  LET refreshToken == localStorage.refreshToken IN
  /\ calls' = [calls EXCEPT ![c].pc = "refresh", ![c].first = status,
                            ![c].refreshToken = refreshToken,
                            ![c].refreshSent =
                               Append(@, refreshRequest(refreshToken))]
  /\ noLogout
  /\ UNCHANGED << localStorage, authChangeEvents >>

\* Mutant: single-flight, a call does not send a refresh call while the
\* refresh call of another call is in flight.
onUnauthorized_singleFlight(c, status) ==
  LET refreshToken == localStorage.refreshToken
      call == [calls[c] EXCEPT !.first = status]
      shared == \E d \in Calls \ {c} : calls[d].pc = "refresh"
  IN IF refreshToken = NoToken
     THEN sessionExpired(c, call, "no_refresh_token")
     ELSE /\ calls' = [calls EXCEPT ![c] =
                         [call EXCEPT !.pc = "refresh",
                                      !.refreshToken = refreshToken,
                                      !.refreshSent =
                                         IF shared THEN @
                                         ELSE Append(@, refreshRequest(refreshToken))]]
          /\ noLogout
          /\ UNCHANGED << localStorage, authChangeEvents >>

\* Mutant: a call that finds a newer access token in storage when its 401
\* arrives retries with that token instead of refreshing.
onUnauthorized_reuseStored(c, status) ==
  LET refreshToken == localStorage.refreshToken
      call == [calls[c] EXCEPT !.first = status]
  IN IF refreshToken = NoToken
     THEN sessionExpired(c, call, "no_refresh_token")
     ELSE /\ calls' = [calls EXCEPT ![c] =
                         IF localStorage.accessToken # call.accessToken
                         THEN [call EXCEPT !.pc = "retry",
                                           !.sent = Append(@,
                                              makeRequest(call.req,
                                                 localStorage.accessToken,
                                                 localStorage))]
                         ELSE [call EXCEPT !.pc = "refresh",
                                      !.refreshToken = refreshToken,
                                      !.refreshSent =
                                         Append(@, refreshRequest(refreshToken))]]
          /\ noLogout
          /\ UNCHANGED << localStorage, authChangeEvents >>

\* What api.request does with a first response of status 401: read the
\* refresh token, log out when there is none, else send the refresh call.
onUnauthorized(c, status) ==
  LET refreshToken == localStorage.refreshToken
      call == [calls[c] EXCEPT !.first = status]
  IN IF refreshToken = NoToken
     THEN sessionExpired(c, call, "no_refresh_token")
     ELSE /\ calls' = [calls EXCEPT ![c] =
                         [call EXCEPT !.pc = "refresh",
                                      !.refreshToken = refreshToken,
                                      !.refreshSent =
                                         Append(@, refreshRequest(refreshToken))]]
          /\ noLogout
          /\ UNCHANGED << localStorage, authChangeEvents >>

\* Mutant: every failed first response, not only a 401, starts the refresh.
FirstResponse_anyFailure(c, status) ==
  /\ calls[c].pc = "attempt"
  /\ IF ~IsOk(status) THEN onUnauthorized(c, status)
                      ELSE returnFirst(c, status)
  /\ UNCHANGED << logoutClicks, issued, auth, authSubmits,
                  uiVars, shopVars >>

\* The first attempt's response arrives.
FirstResponse(c, status) ==
  /\ calls[c].pc = "attempt"
  /\ IF status = Unauthorized THEN onUnauthorized(c, status)
                              ELSE returnFirst(c, status)
  /\ UNCHANGED << logoutClicks, issued, auth, authSubmits,
                  uiVars, shopVars >>

\* Mutant: the first attempt is awaited inside the try block.
FirstNetworkError_caught(c) ==
  /\ calls[c].pc = "attempt"
  /\ sessionExpired(c, calls[c], "first_network")
  /\ UNCHANGED << logoutClicks, issued, auth, authSubmits,
                  uiVars, shopVars >>

\* Mutant: a rejected first attempt is swallowed and a response is made up.
FirstNetworkError_swallowed(c) ==
  /\ calls[c].pc = "attempt"
  /\ calls' = [calls EXCEPT ![c].pc = "done",
                            ![c].res = [status |-> 500, attempt |-> 1]]
  /\ noLogout
  /\ UNCHANGED << localStorage, authChangeEvents, logoutClicks, issued, auth,
                  authSubmits,
                  uiVars, shopVars >>

\* The first attempt's fetch rejects: the rejection leaves api.request,
\* which has no handler around the first await.
FirstNetworkError(c) ==
  /\ calls[c].pc = "attempt"
  /\ calls' = [calls EXCEPT ![c].pc = "failed", ![c].error = "network",
                            ![c].cause = "first_network"]
  /\ noLogout
  /\ UNCHANGED << localStorage, authChangeEvents, logoutClicks, issued, auth,
                  authSubmits,
                  uiVars, shopVars >>

\* The refresh response arrives.  A success carries a new token pair and
\* api.request goes on to await its body; any other status throws inside
\* the try block.
RefreshResponse(c, status) ==
  /\ calls[c].pc = "refresh"
  /\ LET call == [calls[c] EXCEPT !.refreshStatus = status] IN
     IF IsOk(status)
     THEN /\ calls' = [calls EXCEPT ![c] =
                         [call EXCEPT !.pc = "refreshJson", !.data = NewTokens]]
          /\ issued' = issued + 1
          /\ noLogout
          /\ UNCHANGED << localStorage, authChangeEvents >>
     ELSE /\ sessionExpired(c, call, "refresh_status")
          /\ UNCHANGED issued
  /\ UNCHANGED << logoutClicks, auth, authSubmits,
                  uiVars, shopVars >>

\* Mutant: the refresh call is made outside the try block.
RefreshNetworkError_uncaught(c) ==
  /\ calls[c].pc = "refresh"
  /\ calls' = [calls EXCEPT ![c].pc = "failed", ![c].error = "network",
                            ![c].cause = "refresh_network"]
  /\ noLogout
  /\ UNCHANGED << localStorage, authChangeEvents, logoutClicks, issued, auth,
                  authSubmits,
                  uiVars, shopVars >>

\* The fetch of /users/refresh rejects.
RefreshNetworkError(c) ==
  /\ calls[c].pc = "refresh"
  /\ sessionExpired(c, calls[c], "refresh_network")
  /\ UNCHANGED << logoutClicks, issued, auth, authSubmits,
                  uiVars, shopVars >>

\* Mutant: the retry is sent with the access token read at call start.
storeAndRetry_oldToken(c) ==
  LET data == calls[c].data
      store == setTokens(localStorage, data)
  IN /\ localStorage' = store
     /\ calls' = [calls EXCEPT ![c].pc = "retry",
                               ![c].sent = Append(@, makeRequest(calls[c].req,
                                                 calls[c].accessToken, store))]

\* Mutant: after the refresh the call starts over (a recursive
\* this.request), so that a 401 of the retry refreshes again.
storeAndRetry_recursive(c) ==
  LET data == calls[c].data
      store == setTokens(localStorage, data)
  IN /\ localStorage' = store
     /\ calls' = [calls EXCEPT ![c].pc = "attempt",
                               ![c].accessToken = data.access_token,
                               ![c].sent = Append(@, makeRequest(calls[c].req,
                                                 data.access_token, store))]

\* Mutant: the retry is sent before the new tokens are stored.
storeAndRetry_retryFirst(c) ==
  LET data == calls[c].data
      store == setTokens(localStorage, data)
  IN /\ localStorage' = store
     /\ calls' = [calls EXCEPT ![c].pc = "retry",
                               ![c].sent = Append(@, makeRequest(calls[c].req,
                                                 data.access_token, localStorage))]

\* After a successful refresh: store both tokens, then send the original
\* request again with the new access token.  No await separates the three
\* statements.
storeAndRetry(c) ==
  LET data == calls[c].data
      store == setTokens(localStorage, data)
  IN /\ localStorage' = store
     /\ calls' = [calls EXCEPT ![c].pc = "retry",
                               ![c].sent = Append(@, makeRequest(calls[c].req,
                                                       data.access_token, store))]

\* refreshRes.json() resolves with the token pair.
RefreshJson(c) ==
  /\ calls[c].pc = "refreshJson"
  /\ storeAndRetry(c)
  /\ noLogout
  /\ UNCHANGED << authChangeEvents, logoutClicks, issued, auth, authSubmits,
                  uiVars, shopVars >>

\* refreshRes.json() rejects (the body does not arrive or is not JSON).
RefreshJsonError(c) ==
  /\ calls[c].pc = "refreshJson"
  /\ sessionExpired(c, calls[c], "refresh_body")
  /\ UNCHANGED << logoutClicks, issued, auth, authSubmits,
                  uiVars, shopVars >>

\* Mutant: a retry answered with 401 starts another refresh.
returnRetry_refreshAgain(c, status) ==
  /\ calls' = IF status = Unauthorized
              THEN [calls EXCEPT ![c].pc = "refresh",
                                 ![c].refreshSent =
                                    Append(@, refreshRequest(localStorage.refreshToken))]
              ELSE [calls EXCEPT ![c].pc = "done",
                                 ![c].res = [status |-> status, attempt |-> 2]]
  /\ noLogout
  /\ UNCHANGED << localStorage, authChangeEvents >>

\* Mutant: a retry answered with 401 logs the user out.
returnRetry_logoutOnUnauthorized(c, status) ==
  IF status = Unauthorized
  THEN /\ logout
       /\ calls' = [calls EXCEPT ![c].pc = "done",
                                 ![c].res = [status |-> status, attempt |-> 2]]
  ELSE /\ calls' = [calls EXCEPT ![c].pc = "done",
                                 ![c].res = [status |-> status, attempt |-> 2]]
       /\ noLogout
       /\ UNCHANGED << localStorage, authChangeEvents >>

\* What api.request does with the response of the retried request: it is
\* returned whatever its status.
returnRetry(c, status) ==
  /\ calls' = [calls EXCEPT ![c].pc = "done",
                            ![c].res = [status |-> status, attempt |-> 2]]
  /\ noLogout
  /\ UNCHANGED << localStorage, authChangeEvents >>

\* The retried request's response arrives.
RetryResponse(c, status) ==
  /\ calls[c].pc = "retry"
  /\ returnRetry(c, status)
  /\ UNCHANGED << logoutClicks, issued, auth, authSubmits,
                  uiVars, shopVars >>

\* The retried request's fetch rejects: the await is inside the try block,
\* so the catch block runs.
RetryNetworkError(c) ==
  /\ calls[c].pc = "retry"
  /\ sessionExpired(c, calls[c], "retry_network")
  /\ UNCHANGED << logoutClicks, issued, auth, authSubmits,
                  uiVars, shopVars >>

\* ------------------------------------------------------- the Logout buttons
\* onLogoutClick={api.logout} in the header and in the profile sheet.
LogoutClick ==
  /\ logoutClicks < MaxLogoutClicks
  /\ logoutClicks' = logoutClicks + 1
  /\ logout
  /\ UNCHANGED << calls, issued, auth, authSubmits,
                  uiVars, shopVars >>

\* ---------------------------------------------------------------- handleAuth
\* outcome tells how the last activation ended: "login" and "register" for
\* the two branches after a successful response, "failed" for the catch;
\* after a login data keeps the token pair the login stored.
IdleAuth == [pc |-> "idle", mode |-> "", email |-> "", data |-> NoData,
             username |-> "", outcome |-> "none"]

Modes == {"login", "register"}

\* handleAuth(mode, email, username, password) up to its first await.
HandleAuth(mode, email) ==
  /\ auth.pc = "idle"
  /\ authSubmits < MaxAuths
  /\ authSubmits' = authSubmits + 1
  /\ auth' = [IdleAuth EXCEPT !.pc = "fetch", !.mode = mode, !.email = email]
  /\ noLogout
  /\ UNCHANGED << localStorage, calls, authChangeEvents, logoutClicks, issued,
                  uiVars, shopVars >>

\* The response of /users/login or /users/register arrives; a successful
\* login carries a new token pair and possibly a username.
AuthResponse(status, username) ==
  /\ auth.pc = "fetch"
  /\ IF IsOk(status)
     THEN IF auth.mode = "login"
          THEN /\ auth' = [auth EXCEPT !.pc = "json", !.data = NewTokens,
                                       !.username = username]
               /\ issued' = issued + 1
          ELSE /\ username = ""
               /\ auth' = [auth EXCEPT !.pc = "json"]
               /\ UNCHANGED issued
     ELSE /\ username = ""
          /\ auth' = [auth EXCEPT !.pc = "errorJson"]
          /\ UNCHANGED issued
  /\ noLogout
  /\ UNCHANGED << localStorage, calls, authChangeEvents, logoutClicks,
                  authSubmits,
                  uiVars, shopVars >>

\* The fetch rejects, or a body fails to parse: the catch block shows a
\* toast; so does the throw after the error body of a failed response.
AuthFailure ==
  /\ auth.pc \in {"fetch", "json", "errorJson"}
  /\ auth' = [IdleAuth EXCEPT !.outcome = "failed"]
  /\ noLogout
  /\ UNCHANGED << localStorage, calls, authChangeEvents, logoutClicks, issued,
                  authSubmits,
                  uiVars, shopVars >>

\* Mutant: the email is preferred to the username (email || data.username).
userOf_emailFirst(username, email) == IF email # "" THEN email ELSE username

\* data.username || email
userOf(username, email) == IF username # "" THEN username ELSE email

\* The three setItem calls of a successful login.
storeLogin(store, data, username, email) ==
  [setTokens(store, data) EXCEPT !.user = userOf(username, email)]

\* res.json() resolves for a successful response; a login stores the
\* session, dispatches authChange and closes the dialog.
AuthJson ==
  /\ auth.pc = "json"
  /\ IF auth.mode = "login"
     THEN /\ localStorage' = storeLogin(localStorage, auth.data, auth.username,
                                        auth.email)
          /\ authChangeEvents' = dispatchAuthChange(authChangeEvents)
          /\ authModalOpen' = FALSE
          /\ renderPending' = (renderPending \/ authModalOpen)
     ELSE UNCHANGED << localStorage, authChangeEvents, authModalOpen,
                       renderPending >>
  /\ auth' = [IdleAuth EXCEPT !.outcome = auth.mode, !.data = auth.data]
  /\ noLogout
  /\ UNCHANGED << calls, logoutClicks, issued, authSubmits, user, cart,
                  wishlist, isLoggedIn, handled, callers, fetchInitialData,
                  fetched, shopVars >>

\* ------------------------------------------------------------- the catalogue
\* What the search box can hold, the categories and the sort orders.
SearchStrings == {"", "a", "ab"}
CategoryNames == {"shoes"}
Sorts == {"id", "price"}

\* The URL loadProducts builds: the search endpoint takes the search string
\* and the page only, the list endpoint the page, the sort order and the
\* category if one is selected.
productsUrl(p, category, order, searchStr) ==
  IF searchStr # ""
  THEN [path |-> "/products/search", search_str |-> searchStr, page |-> p,
        sort |-> "", category |-> ""]
  ELSE [path |-> "/products", search_str |-> "", page |-> p,
        sort |-> order, category |-> category]

\* setProducts has not been called: the list is empty.
NoProducts == [path |-> "", search_str |-> "", page |-> 0, sort |-> "",
               category |-> ""]

\* data.pages of the response to a URL: the catalogue does not change during
\* a run, and the search for "ab" fits on one page.
pagesOf(url) == IF url.search_str = "ab" THEN 1 ELSE MaxPages

\* Mutant: the page is kept when a filter changes.
effects_keepPage(p, category, order, searchStr, filterChanged) ==
  [page |-> p, loads |-> << productsUrl(p, category, order, searchStr) >>]

\* The effects of the render after page, category, sort order or debounced
\* search changed: loadProducts is a new function and is called, with the
\* page of that render; when a filter changed setPage(1) runs too, and if
\* that changes the page App renders again and calls loadProducts again.
\* Yields the page left and the fetches started.
effects(p, category, order, searchStr, filterChanged) ==
  IF filterChanged /\ p # 1
  THEN [page |-> 1,
        loads |-> << productsUrl(p, category, order, searchStr),
                     productsUrl(1, category, order, searchStr) >>]
  ELSE [page |-> p, loads |-> << productsUrl(p, category, order, searchStr) >>]

\* The setters of one event have run and App has rendered.
rendered(p, category, order, searchStr, filterChanged) ==
  LET e == effects(p, category, order, searchStr, filterChanged) IN
  /\ Len(loads) + Len(e.loads) <= MaxLoads
  /\ page' = e.page
  /\ loads' = loads \o e.loads
  /\ loading' = TRUE

\* handleCategorySelect: a click on a category selects it, or clears the
\* selection when it is the selected one.
SelectCategory(category) ==
  /\ selectedCategory' = IF selectedCategory = category THEN "" ELSE category
  /\ rendered(page, selectedCategory', sort, debouncedSearch, TRUE)
  /\ noLogout
  /\ UNCHANGED << localStorage, calls, authChangeEvents, logoutClicks, issued,
                  auth, authSubmits, uiVars, search, debouncedSearch, timers,
                  quiet, sort, pages, products, adding, toggling, cartOpen >>

\* The sort order is changed in the select box.
SetSort(order) ==
  /\ order # sort
  /\ sort' = order
  /\ rendered(page, selectedCategory, order, debouncedSearch, TRUE)
  /\ noLogout
  /\ UNCHANGED << localStorage, calls, authChangeEvents, logoutClicks, issued,
                  auth, authSubmits, uiVars, search, debouncedSearch, timers,
                  quiet, selectedCategory, pages, products, adding, toggling, cartOpen >>

\* The Previous (next = FALSE) or Next button of Pagination, which is shown
\* while pages > 1.
PageChange(next) ==
  LET p == IF next THEN (IF pages < page + 1 THEN pages ELSE page + 1)
                   ELSE (IF page - 1 < 1 THEN 1 ELSE page - 1)
  IN /\ pages > 1
     /\ IF next THEN ~(page >= pages) ELSE ~(page <= 1)
     /\ p # page
     /\ rendered(p, selectedCategory, sort, debouncedSearch, FALSE)
     /\ noLogout
     /\ UNCHANGED << localStorage, calls, authChangeEvents, logoutClicks,
                     issued, auth, authSubmits, uiVars, search,
                     debouncedSearch, timers, quiet, selectedCategory, sort,
                     pages, products, adding, toggling, cartOpen >>

\* Mutant: the effect of useDebounce has no cleanup.
Type_noCleanup(value) ==
  /\ value # search
  /\ search' = value
  /\ quiet' = 0
  /\ timers' = timers \cup {[value |-> value, left |-> Delay]}
  /\ noLogout
  /\ UNCHANGED << localStorage, calls, authChangeEvents, logoutClicks, issued,
                  auth, authSubmits, uiVars, debouncedSearch,
                  selectedCategory, sort, page, pages, products, loads,
                  loading, adding, toggling, cartOpen >>

\* The search box changes (a key, or the speech recognition's result): App
\* renders with the new value and the effect of useDebounce runs anew, its
\* cleanup clearing the timeout set for the value before.
Type(value) ==
  /\ value # search
  /\ search' = value
  /\ quiet' = 0
  /\ timers' = {[value |-> value, left |-> Delay]}
  /\ noLogout
  /\ UNCHANGED << localStorage, calls, authChangeEvents, logoutClicks, issued,
                  auth, authSubmits, uiVars, debouncedSearch,
                  selectedCategory, sort, page, pages, products, loads,
                  loading, adding, toggling, cartOpen >>

\* The clock advances by one tick.
Tick ==
  /\ quiet < Delay \/ \E t \in timers : t.left > 0
  /\ quiet' = IF quiet < Delay THEN quiet + 1 ELSE quiet
  /\ timers' = {[t EXCEPT !.left = IF @ > 0 THEN @ - 1 ELSE 0] : t \in timers}
  /\ noLogout
  /\ UNCHANGED << localStorage, calls, authChangeEvents, logoutClicks, issued,
                  auth, authSubmits, uiVars, search, debouncedSearch,
                  selectedCategory, sort, page, pages, products, loads,
                  loading, adding, toggling, cartOpen >>

\* A timeout of useDebounce is due and its callback runs:
\* setDebouncedValue(value), and when that changes the state, the render
\* and its effects.
Fire(t) ==
  /\ t \in timers
  /\ t.left = 0
  /\ timers' = timers \ {t}
  /\ debouncedSearch' = t.value
  /\ IF t.value # debouncedSearch
     THEN rendered(page, selectedCategory, sort, t.value, TRUE)
     ELSE UNCHANGED << page, loads, loading >>
  /\ noLogout
  /\ UNCHANGED << localStorage, calls, authChangeEvents, logoutClicks, issued,
                  auth, authSubmits, uiVars, search, quiet, selectedCategory,
                  sort, pages, products, adding, toggling, cartOpen >>

\* The i-th fetch of loadProducts in flight ends: with a response whose
\* body is read (ok), or with a failure status, a rejection or an unreadable
\* body, for which the catch block shows a toast.
LoadDone(i, ok) ==
  /\ i \in 1..Len(loads)
  /\ loads' = SubSeq(loads, 1, i - 1) \o SubSeq(loads, i + 1, Len(loads))
  /\ IF ok
     THEN /\ products' = loads[i]
          /\ pages' = pagesOf(loads[i])
     ELSE UNCHANGED << products, pages >>
  /\ loading' = FALSE
  /\ noLogout
  /\ UNCHANGED << localStorage, calls, authChangeEvents, logoutClicks, issued,
                  auth, authSubmits, uiVars, search, debouncedSearch, timers,
                  quiet, selectedCategory, sort, page, adding, toggling, cartOpen >>

\* A product as a button passes it to its handler, and no product.
NoProduct == [id |-> "", stock |-> 0]

\* No activation of the handler: pc is "post" while the handler awaits its
\* POST and "get" while it awaits fetchCart or fetchWishlist; slot is the
\* call it awaits, by the button that started it; outcome tells how the
\* activation got on: "out_of_stock" and "login" for the two early returns,
\* "posted" once the POST was answered with success, "done" at the end of
\* the try block and "failed" for the catch block.
IdleHandler == [pc |-> "idle", slot |-> 0, product |-> NoProduct, by |-> "",
                outcome |-> "none"]

\* ------------------------------------------------------------ specification
\* localStorage outlives the page: the application starts either with no
\* session or with the session a previous login left.
InitialSession ==
  [accessToken |-> 1, refreshToken |-> 1, user |-> "neo"]

\* No function of App awaits the call.
NoCaller == [fn |-> "none", awaited |-> FALSE, pc |-> "none"]

\* The state after the first render of App and the run of its effects:
\* the listener is registered and fetchInitialData awaits /categories.
Init ==
  /\ localStorage \in {EmptyStorage, InitialSession}
  /\ calls = [c \in Slots |-> IdleCall]
  /\ user = localStorage.user
  /\ cart = << >>
  /\ wishlist = << >>
  /\ authModalOpen = FALSE
  /\ isLoggedIn = (localStorage.accessToken # NoToken)
  /\ renderPending = FALSE
  /\ handled = 0
  /\ callers = [c \in Slots |-> NoCaller]
  /\ fetchInitialData = [b \in BOOLEAN |-> IF b = isLoggedIn THEN 1 ELSE 0]
  /\ fetched = [cart |-> NoToken, wishlist |-> NoToken]
  /\ authChangeEvents = 0
  /\ logoutCalls = 0
  /\ logoutClicks = 0
  /\ issued = 1
  /\ auth = IdleAuth
  /\ authSubmits = 0
  /\ search = ""
  /\ debouncedSearch = ""
  /\ timers = {[value |-> "", left |-> Delay]}
  /\ quiet = 0
  /\ selectedCategory = ""
  /\ sort = "id"
  /\ page = 1
  /\ pages = 1
  /\ products = NoProducts
  /\ loads = << productsUrl(1, "", "id", "") >>
  /\ loading = TRUE
  /\ adding = IdleHandler
  /\ toggling = IdleHandler
  /\ cartOpen = FALSE

Next ==
  \/ \E c \in Calls, req \in Requests : Request(c, req)
  \/ \E c \in Calls, status \in Statuses : FirstResponse(c, status)
  \/ \E c \in Calls : FirstNetworkError(c)
  \/ \E c \in Calls, status \in Statuses : RefreshResponse(c, status)
  \/ \E c \in Calls : RefreshNetworkError(c)
  \/ \E c \in Calls : RefreshJson(c)
  \/ \E c \in Calls : RefreshJsonError(c)
  \/ \E c \in Calls, status \in Statuses : RetryResponse(c, status)
  \/ \E c \in Calls : RetryNetworkError(c)
  \/ LogoutClick

\* The gateway with its callers and the Logout buttons.
Spec == Init /\ [][Next]_vars

\* A step of call c after its start: the answer, or the failure, of the
\* network call or body read it is waiting for.
Respond(c) ==
  \/ \E status \in Statuses : FirstResponse(c, status)
  \/ FirstNetworkError(c)
  \/ \E status \in Statuses : RefreshResponse(c, status)
  \/ RefreshNetworkError(c)
  \/ RefreshJson(c)
  \/ RefreshJsonError(c)
  \/ \E status \in Statuses : RetryResponse(c, status)
  \/ RetryNetworkError(c)

\* The request of the calls checked for termination: api.get('/cart').
LiveRequest == [method |-> "GET", endpoint |-> "/cart", body |-> "null"]

\* The gateway with the first LiveCalls calls, all for the same request
\* (api.request never looks into the request it forwards).
LiveNext ==
  \/ \E c \in 1..LiveCalls : Request(c, LiveRequest)
  \/ \E c \in 1..LiveCalls : Respond(c)
  \/ LogoutClick

\* Every issued network call eventually yields a response or an error:
\* fetch has no timeout or abort here, and nothing else suspends a call.
SpecLive ==
  Init /\ [][LiveNext]_vars /\ \A c \in 1..LiveCalls : WF_vars(Respond(c))

\* The login / register form beside the gateway.
AuthNext ==
  \/ \E mode \in Modes, email \in Emails : HandleAuth(mode, email)
  \/ \E status \in Statuses, username \in Usernames : AuthResponse(status, username)
  \/ AuthFailure
  \/ AuthJson

\* The gateway, the Logout buttons and the login / register form together:
\* any interleaving of logins, logouts and gateway calls.
SessionNext ==
  \/ \E c \in 1..SessionCalls : Request(c, LiveRequest)
  \/ \E c \in 1..SessionCalls : Respond(c)
  \/ LogoutClick
  \/ AuthNext

SpecSession == Init /\ [][SessionNext]_vars

\* Concurrent gateway calls beside the login / register form: any
\* interleaving of logins and refreshes.
PairNext ==
  \/ \E c \in 1..PairCalls : Request(c, LiveRequest)
  \/ \E c \in 1..PairCalls : Respond(c)
  \/ AuthNext

SpecPair == Init /\ [][PairNext]_vars

\* The catalogue: filters, search box, pagination and the product loads;
\* the search box is empty or holds "ab".
ShopNext ==
  \/ \E category \in CategoryNames : SelectCategory(category)
  \/ \E order \in Sorts : SetSort(order)
  \/ \E next \in BOOLEAN : PageChange(next)
  \/ \E value \in {"", "ab"} : Type(value)
  \/ Tick
  \/ \E t \in timers : Fire(t)
  \/ \E i \in 1..MaxLoads, ok \in BOOLEAN : LoadDone(i, ok)

\* The catalogue needs no session: its runs start without one.
ShopInit == Init /\ localStorage = EmptyStorage

\* Time passes, a due timeout runs, and every fetch ends.
SpecShop ==
  /\ ShopInit
  /\ [][ShopNext]_vars
  /\ WF_vars(Tick)
  /\ WF_vars(\E t \in timers : Fire(t))
  /\ \A i \in 1..MaxLoads : WF_vars(\E ok \in BOOLEAN : LoadDone(i, ok))

\* The search box alone, the category, the sort order and the page left as
\* they are.
DebounceNext ==
  \/ \E value \in SearchStrings : Type(value)
  \/ Tick
  \/ \E t \in timers : Fire(t)
  \/ \E i \in 1..MaxLoads, ok \in BOOLEAN : LoadDone(i, ok)

SpecDebounce ==
  /\ ShopInit
  /\ [][DebounceNext]_vars
  /\ WF_vars(Tick)
  /\ WF_vars(\E t \in timers : Fire(t))
  /\ \A i \in 1..MaxLoads : WF_vars(\E ok \in BOOLEAN : LoadDone(i, ok))

\* ----------------------------------------------------------------------- App
\* api.get('/cart') in fetchCart and api.get('/wishlist') in fetchWishlist.
CartRequest == [method |-> "GET", endpoint |-> "/cart", body |-> "null"]

WishlistRequest == [method |-> "GET", endpoint |-> "/wishlist", body |-> "null"]

\* The lists a response body can yield: none or one product.
Lists == {<< >>, << "p1" >>}

\* The activations fetchCart and fetchWishlist can use.
UiSlots == 1..UiCalls

Free == {c \in UiSlots : calls[c].pc = "idle"}

lowest(S) == CHOOSE c \in S : \A d \in S : c <= d

\* window.dispatchEvent runs the listener before it returns: no authChange
\* event is waiting for handleAuthChange.
Delivered == handled = authChangeEvents

\* api.get has returned or thrown and the caller has not yet run on.
Returned(c) ==
  /\ callers[c].pc \in {"request", "post", "get"}
  /\ calls[c].pc \in {"done", "failed"}

\* The event loop is between two tasks: the listener has run for every
\* event and every caller has run on from the call it awaited.
Settled == Delivered /\ \A c \in UiSlots : ~Returned(c)

\* The user acts on what the last render shows.
Shown == Settled /\ ~renderPending

\* handleAuthChange, with the fetchCart and fetchWishlist (hence the
\* isLoggedIn) of the last render: setUser, then both functions up to their
\* first await.
HandleAuthChange ==
  /\ handled < authChangeEvents
  /\ handled' = handled + 1
  /\ user' = localStorage.user
  /\ IF isLoggedIn
     THEN /\ Cardinality(Free) >= 2
          /\ LET c1 == lowest(Free)
                 c2 == lowest(Free \ {c1})
             IN /\ calls' = [calls EXCEPT
                      ![c1] = firstAttempt(CartRequest, localStorage),
                      ![c2] = firstAttempt(WishlistRequest, localStorage)]
                /\ callers' = [callers EXCEPT
                      ![c1] = [fn |-> "fetchCart", awaited |-> FALSE,
                               pc |-> "request"],
                      ![c2] = [fn |-> "fetchWishlist", awaited |-> FALSE,
                               pc |-> "request"]]
          /\ fetched' = [cart |-> localStorage.accessToken,
                         wishlist |-> localStorage.accessToken]
          /\ renderPending' = (renderPending \/ user' # user)
          /\ UNCHANGED << cart, wishlist >>
     ELSE /\ cart' = << >>
          /\ wishlist' = << >>
          /\ renderPending' = TRUE
          /\ UNCHANGED << calls, callers, fetched >>
  /\ noLogout
  /\ UNCHANGED << localStorage, authChangeEvents, logoutClicks, issued, auth,
                  authSubmits, authModalOpen, isLoggedIn, fetchInitialData, shopVars >>

\* fetchCart or fetchWishlist returns.  The fetchCart that fetchInitialData
\* awaits is followed by fetchWishlist, of the same render and so with
\* isLoggedIn true, up to its first await; any other return ends the chain.
finish(c) ==
  IF callers[c].awaited /\ callers[c].fn = "fetchCart"
  THEN /\ calls' = [calls EXCEPT
                      ![c] = firstAttempt(WishlistRequest, localStorage)]
       /\ callers' = [callers EXCEPT ![c] = [fn |-> "fetchWishlist",
                                             awaited |-> TRUE,
                                             pc |-> "request"]]
       /\ fetched' = [fetched EXCEPT !.wishlist = localStorage.accessToken]
  ELSE /\ calls' = [calls EXCEPT ![c] = IdleCall]
       /\ callers' = [callers EXCEPT ![c] = NoCaller]
       /\ UNCHANGED fetched

\* The caller runs on from await api.get(...): a successful response goes
\* on to its body, anything else (a thrown error, !res.ok) ends in the
\* catch block with a toast.
Return(c) ==
  /\ Delivered
  /\ Returned(c)
  /\ callers[c].pc = "request"
  /\ IF calls[c].pc = "done" /\ IsOk(calls[c].res.status)
     THEN /\ callers' = [callers EXCEPT ![c].pc = "body"]
          /\ UNCHANGED << calls, fetched >>
     ELSE finish(c)
  /\ noLogout
  /\ UNCHANGED << localStorage, authChangeEvents, logoutClicks, issued, auth,
                  authSubmits, user, cart, wishlist, authModalOpen,
                  isLoggedIn, renderPending, handled, fetchInitialData, shopVars >>

\* The body of the response has been read (for the cart, with the product
\* of each item): setCart / setWishlist.
Body(c, items) ==
  /\ Settled
  /\ callers[c].pc = "body"
  /\ IF callers[c].fn = "fetchCart"
     THEN cart' = items /\ UNCHANGED wishlist
     ELSE wishlist' = items /\ UNCHANGED cart
  /\ renderPending' = TRUE
  /\ finish(c)
  /\ noLogout
  /\ UNCHANGED << localStorage, authChangeEvents, logoutClicks, issued, auth,
                  authSubmits, user, authModalOpen, isLoggedIn, handled,
                  fetchInitialData, shopVars >>

\* Reading the body fails: the catch block shows a toast.
BodyError(c) ==
  /\ Settled
  /\ callers[c].pc = "body"
  /\ finish(c)
  /\ noLogout
  /\ UNCHANGED << localStorage, authChangeEvents, logoutClicks, issued, auth,
                  authSubmits, user, cart, wishlist, authModalOpen,
                  isLoggedIn, renderPending, handled, fetchInitialData, shopVars >>

\* fetchInitialData runs on from the fetch of /categories (ok: the body was
\* read and setCategories called) with the fetchCart and fetchWishlist of
\* the render that started it, which captured isLoggedIn = b.
Categories(b, ok) ==
  /\ Settled
  /\ fetchInitialData[b] > 0
  /\ fetchInitialData' = [fetchInitialData EXCEPT ![b] = @ - 1]
  /\ IF b
     THEN /\ Free # {}
          /\ LET c == lowest(Free)
             IN /\ calls' = [calls EXCEPT
                               ![c] = firstAttempt(CartRequest, localStorage)]
                /\ callers' = [callers EXCEPT ![c] = [fn |-> "fetchCart",
                                                      awaited |-> TRUE,
                                                      pc |-> "request"]]
          /\ fetched' = [fetched EXCEPT !.cart = localStorage.accessToken]
          /\ renderPending' = (renderPending \/ ok)
          /\ UNCHANGED << cart, wishlist >>
     ELSE /\ ok
          /\ cart' = << >>
          /\ wishlist' = << >>
          /\ renderPending' = TRUE
          /\ UNCHANGED << calls, callers, fetched >>
  /\ noLogout
  /\ UNCHANGED << localStorage, authChangeEvents, logoutClicks, issued, auth,
                  authSubmits, user, authModalOpen, isLoggedIn, handled, shopVars >>

\* Mutant: fetchInitialData runs on mount only.
Render_mountEffect ==
  /\ Settled
  /\ renderPending
  /\ renderPending' = FALSE
  /\ isLoggedIn' = (localStorage.accessToken # NoToken)
  /\ noLogout
  /\ UNCHANGED << localStorage, calls, authChangeEvents, logoutClicks, issued,
                  auth, authSubmits, user, cart, wishlist, authModalOpen,
                  handled, callers, fetchInitialData, fetched, shopVars >>

\* App renders again: isLoggedIn is read from localStorage, and when its
\* value has changed fetchCart and fetchWishlist are new functions, so the
\* listener is registered anew and fetchInitialData is run again.
Render ==
  /\ Settled
  /\ renderPending
  /\ renderPending' = FALSE
  /\ isLoggedIn' = (localStorage.accessToken # NoToken)
  /\ IF isLoggedIn' # isLoggedIn
     THEN /\ fetchInitialData[TRUE] + fetchInitialData[FALSE] < MaxEffects
          /\ fetchInitialData' = [fetchInitialData EXCEPT ![isLoggedIn'] = @ + 1]
     ELSE UNCHANGED fetchInitialData
  /\ noLogout
  /\ UNCHANGED << localStorage, calls, authChangeEvents, logoutClicks, issued,
                  auth, authSubmits, user, cart, wishlist, authModalOpen,
                  handled, callers, fetched, shopVars >>

\* onLoginClick, shown while no user is displayed, and the dialog's onClose.
OpenAuthDialog ==
  /\ Shown
  /\ user = NoUser
  /\ ~authModalOpen
  /\ authModalOpen' = TRUE
  /\ renderPending' = TRUE
  /\ noLogout
  /\ UNCHANGED << localStorage, calls, authChangeEvents, logoutClicks, issued,
                  auth, authSubmits, user, cart, wishlist, isLoggedIn,
                  handled, callers, fetchInitialData, fetched, shopVars >>

CloseAuthDialog ==
  /\ Shown
  /\ authModalOpen
  /\ authModalOpen' = FALSE
  /\ renderPending' = TRUE
  /\ noLogout
  /\ UNCHANGED << localStorage, calls, authChangeEvents, logoutClicks, issued,
                  auth, authSubmits, user, cart, wishlist, isLoggedIn,
                  handled, callers, fetchInitialData, fetched, shopVars >>

\* The form of the dialog is submitted.
Submit(mode, email) == Shown /\ authModalOpen /\ HandleAuth(mode, email)

\* The answer to handleAuth's request, in a task of its own.
AuthAnswer ==
  /\ Settled
  /\ \/ \E status \in Statuses, username \in Usernames :
          AuthResponse(status, username)
     \/ AuthFailure
     \/ AuthJson

\* A Logout button is clicked; the header shows one while a user is
\* displayed.
UiLogoutClick == Shown /\ user # NoUser /\ LogoutClick

\* The answers of the server in the runs with App: a request that carries
\* no token is refused, and an access token does not expire during the run
\* (api.logout tells the server nothing, so the token stays valid).
Answers(request, status) ==
  IF request.authorization = << >> THEN ~IsOk(status)
                                   ELSE status # Unauthorized

\* The network answers the first attempt of call c of fetchCart or
\* fetchWishlist, or fails.
UiFirstAnswer(c) ==
  /\ Settled
  /\ callers[c].pc = "request"
  /\ \/ \E status \in Statuses :
          Answers(calls[c].sent[1], status) /\ FirstResponse(c, status)
     \/ FirstNetworkError(c)

\* The network answers the refresh call or the retry of call c, or fails.
UiRefreshAnswer(c) ==
  /\ Settled
  /\ callers[c].pc = "request"
  /\ \/ \E status \in Statuses : RefreshResponse(c, status)
     \/ RefreshNetworkError(c)
     \/ RefreshJson(c)
     \/ RefreshJsonError(c)
     \/ \E status \in Statuses :
          /\ Len(calls[c].sent) = 2
          /\ Answers(calls[c].sent[2], status)
          /\ RetryResponse(c, status)
     \/ RetryNetworkError(c)

\* The calls of fetchCart and fetchWishlist under way.
Busy == {c \in UiSlots : calls[c].pc # "idle"}

\* A step stays within the runs looked at: after it at most n calls are
\* under way, with the two the listener is about to start when the step
\* has dispatched authChange, and api.logout has run at most m times.
Within(n, m) ==
  /\ logoutCalls' <= m
  /\ Cardinality(Busy') <= n
  /\ (authChangeEvents' # authChangeEvents /\ isLoggedIn') =>
       Cardinality(Busy') + 2 <= n

\* App with a session or without, its Logout buttons and the gateway.
UiNext ==
  \/ HandleAuthChange
  \/ \E c \in UiSlots : Return(c)
  \/ \E c \in UiSlots : UiFirstAnswer(c) /\ Within(UiCalls, MaxLogouts)
  \/ \E c \in UiSlots, items \in Lists : Body(c, items)
  \/ \E c \in UiSlots : BodyError(c)
  \/ \E b \in BOOLEAN, ok \in BOOLEAN :
       Categories(b, ok) /\ Within(UiCalls, MaxLogouts)
  \/ Render
  \/ UiLogoutClick /\ Within(UiCalls, MaxLogouts)

\* Every network call is answered in the end, and the listener, the
\* callers and a pending render get to run.
SpecUi ==
  /\ Init
  /\ [][UiNext]_vars
  /\ WF_vars(HandleAuthChange)
  /\ WF_vars(Render)
  /\ WF_vars(\E b \in BOOLEAN, ok \in BOOLEAN :
               Categories(b, ok) /\ Within(UiCalls, MaxLogouts))
  /\ \A c \in UiSlots :
       /\ WF_vars(Return(c))
       /\ WF_vars(UiFirstAnswer(c) /\ Within(UiCalls, MaxLogouts))
       /\ WF_vars(BodyError(c) \/ \E items \in Lists : Body(c, items))

\* App with the login / register dialog as well.
LoginNext ==
  \/ HandleAuthChange
  \/ \E c \in UiSlots : Return(c)
  \/ \E c \in UiSlots : UiFirstAnswer(c) /\ Within(LoginCalls, LoginLogouts)
  \/ \E c \in UiSlots : UiRefreshAnswer(c) /\ Within(LoginCalls, LoginLogouts)
  \/ \E c \in UiSlots, items \in Lists : Body(c, items)
  \/ \E c \in UiSlots : BodyError(c)
  \/ \E b \in BOOLEAN, ok \in BOOLEAN :
       Categories(b, ok) /\ Within(LoginCalls, LoginLogouts)
  \/ Render
  \/ OpenAuthDialog
  \/ CloseAuthDialog
  \/ \E mode \in Modes, email \in Emails : Submit(mode, email)
  \/ AuthAnswer /\ Within(LoginCalls, LoginLogouts)
  \/ UiLogoutClick /\ Within(LoginCalls, LoginLogouts)

SpecLogin ==
  /\ Init
  /\ [][LoginNext]_vars
  /\ WF_vars(HandleAuthChange)
  /\ WF_vars(Render)
  /\ WF_vars(\E b \in BOOLEAN, ok \in BOOLEAN :
               Categories(b, ok) /\ Within(LoginCalls, LoginLogouts))
  /\ \A c \in UiSlots :
       /\ WF_vars(Return(c))
       /\ WF_vars(UiFirstAnswer(c) /\ Within(LoginCalls, LoginLogouts))
       /\ WF_vars(UiRefreshAnswer(c) /\ Within(LoginCalls, LoginLogouts))
       /\ WF_vars(BodyError(c) \/ \E items \in Lists : Body(c, items))

\* The access token of the first attempt of call c has expired: the server
\* answers 401.
UiExpiredAnswer(c) ==
  /\ Settled
  /\ callers[c].pc = "request"
  /\ calls[c].pc = "attempt"
  /\ calls[c].sent[1].authorization # << >>
  /\ FirstResponse(c, Unauthorized)

\* App with a session or without and its Logout buttons, with access tokens
\* that may expire and so with the refresh and the retry of the gateway.
ExpiryNext ==
  \/ HandleAuthChange
  \/ \E c \in UiSlots : Return(c)
  \/ \E c \in UiSlots : UiFirstAnswer(c) /\ Within(UiCalls, ExpiryLogouts)
  \/ \E c \in UiSlots : UiExpiredAnswer(c) /\ Within(UiCalls, ExpiryLogouts)
  \/ \E c \in UiSlots :
       UiRefreshAnswer(c) /\ Within(UiCalls, ExpiryLogouts) /\ issued' <= MaxIssued
  \/ \E c \in UiSlots, items \in Lists : Body(c, items)
  \/ \E c \in UiSlots : BodyError(c)
  \/ \E b \in BOOLEAN, ok \in BOOLEAN :
       Categories(b, ok) /\ Within(UiCalls, ExpiryLogouts)
  \/ Render
  \/ UiLogoutClick /\ Within(UiCalls, ExpiryLogouts)

SpecExpiry == Init /\ [][ExpiryNext]_vars

\* ------------------------------------------------- cart and wishlist buttons
\* The products on the buttons: one product, in stock or not.
Products == {[id |-> "p1", stock |-> 0], [id |-> "p1", stock |-> 1]}

\* api.post('/cart/add', {product_id, quantity}).
AddRequest(id) == [method |-> "POST", endpoint |-> "/cart/add", body |-> id]

\* api.post of '/wishlist/remove' or '/wishlist/add' with {product_id}.
WishRequest(id, isInWishlist) ==
  [method |-> "POST",
   endpoint |-> IF isInWishlist THEN "/wishlist/remove" ELSE "/wishlist/add",
   body |-> id]

\* What a click handler has done so far to the calls, their callers and
\* the dialog.
Screen == [calls |-> calls, callers |-> callers,
           authModalOpen |-> authModalOpen, renderPending |-> renderPending]

\* setAuthModalOpen(true)
openDialog(st) ==
  [st EXCEPT !.authModalOpen = TRUE,
             !.renderPending = @ \/ ~st.authModalOpen]

\* The handler h sends its POST in the lowest free activation.
post(st, h, req) ==
  LET c == lowest({d \in UiSlots : st.calls[d].pc = "idle"}) IN
    [st |-> [st EXCEPT !.calls[c] = firstAttempt(req, localStorage),
                       !.callers[c] = [fn |-> h, awaited |-> FALSE,
                                       pc |-> "post"]],
     slot |-> c]

\* Mutant: the login check comes before the stock check.
addToCart_loginFirst(st, product, by) ==
  IF ~isLoggedIn
  THEN [st |-> openDialog(st),
        act |-> [IdleHandler EXCEPT !.product = product, !.by = by, !.outcome = "login"]]
  ELSE IF product.stock <= 0
  THEN [st |-> st,
        act |-> [IdleHandler EXCEPT !.product = product, !.by = by,
                                    !.outcome = "out_of_stock"]]
  ELSE LET p == post(st, "addToCart", AddRequest(product.id)) IN
       [st |-> p.st,
        act |-> [pc |-> "post", slot |-> p.slot, product |-> product, by |-> by,
                 outcome |-> "none"]]

\* addToCart(product) up to its first await, with the isLoggedIn of the
\* last render.
addToCart(st, product, by) ==
  IF product.stock <= 0
  THEN [st |-> st,
        act |-> [IdleHandler EXCEPT !.product = product, !.by = by,
                                    !.outcome = "out_of_stock"]]
  ELSE IF ~isLoggedIn
  THEN [st |-> openDialog(st),
        act |-> [IdleHandler EXCEPT !.product = product, !.by = by, !.outcome = "login"]]
  ELSE LET p == post(st, "addToCart", AddRequest(product.id)) IN
       [st |-> p.st,
        act |-> [pc |-> "post", slot |-> p.slot, product |-> product, by |-> by,
                 outcome |-> "none"]]

\* wishlist.some(item => item.id === product.id)
isInWishlist(id) == \E i \in 1..Len(wishlist) : wishlist[i] = id

\* toggleWishlist(product) up to its first await.
toggleWishlist(st, product, by) ==
  IF ~isLoggedIn
  THEN [st |-> openDialog(st),
        act |-> [IdleHandler EXCEPT !.product = product, !.by = by, !.outcome = "login"]]
  ELSE LET p == post(st, "toggleWishlist", WishRequest(product.id, isInWishlist(product.id))) IN
       [st |-> p.st,
        act |-> [pc |-> "post", slot |-> p.slot, product |-> product, by |-> by,
                 outcome |-> "none"]]

\* The click handler leaves st.
shows(st) ==
  /\ calls' = st.calls
  /\ callers' = st.callers
  /\ authModalOpen' = st.authModalOpen
  /\ renderPending' = st.renderPending

\* The Add button of a product card, or of the product dialog.
AddToCart(product) ==
  LET a == addToCart(Screen, product, "add") IN
  /\ Shown
  /\ Free # {}
  /\ shows(a.st)
  /\ adding' = a.act
  /\ toggling' = IdleHandler
  /\ noLogout
  /\ UNCHANGED << localStorage, authChangeEvents, logoutClicks, issued, auth,
                  authSubmits, user, cart, wishlist, isLoggedIn, handled,
                  fetchInitialData, fetched, search, debouncedSearch, timers,
                  quiet, selectedCategory, sort, page, pages, products, loads,
                  loading, cartOpen >>

\* The heart button of a product card.
ToggleWishlist(product) ==
  LET t == toggleWishlist(Screen, product, "heart") IN
  /\ Shown
  /\ Free # {}
  /\ shows(t.st)
  /\ toggling' = t.act
  /\ adding' = IdleHandler
  /\ noLogout
  /\ UNCHANGED << localStorage, authChangeEvents, logoutClicks, issued, auth,
                  authSubmits, user, cart, wishlist, isLoggedIn, handled,
                  fetchInitialData, fetched, search, debouncedSearch, timers,
                  quiet, selectedCategory, sort, page, pages, products, loads,
                  loading, cartOpen >>

\* 'Move to Cart' on a product of the wishlist sheet:
\* onAddToCart(product); onRemoveFromWishlist(product), the second being
\* toggleWishlist.  Both run up to their first await in the click.
MoveToCart(product) ==
  LET a == addToCart(Screen, product, "move")
      t == toggleWishlist(a.st, product, "move")
  IN /\ Shown
     /\ isInWishlist(product.id)
     /\ Cardinality(Free) >= 2
     /\ shows(t.st)
     /\ adding' = a.act
     /\ toggling' = t.act
     /\ noLogout
     /\ UNCHANGED << localStorage, authChangeEvents, logoutClicks, issued,
                     auth, authSubmits, user, cart, wishlist, isLoggedIn,
                     handled, fetchInitialData, fetched, search,
                     debouncedSearch, timers, quiet, selectedCategory, sort,
                     page, pages, products, loads, loading, cartOpen >>

\* The network answers the POST of a handler, or the GET of the fetchCart or
\* fetchWishlist it awaits, or fails.
MutationAnswer(c) ==
  /\ Settled
  /\ callers[c].pc \in {"post", "get"}
  /\ \/ \E status \in Statuses :
          Answers(calls[c].sent[1], status) /\ FirstResponse(c, status)
     \/ FirstNetworkError(c)

\* The activations of the last click after the handler awaiting call c has
\* got to outcome o and position pc.
tracked(c, o, pc) ==
  /\ adding' = IF adding.pc # "idle" /\ adding.slot = c
                  /\ callers[c].fn = "addToCart"
               THEN [adding EXCEPT !.outcome = o, !.pc = pc]
               ELSE adding
  /\ toggling' = IF toggling.pc # "idle" /\ toggling.slot = c
                    /\ callers[c].fn = "toggleWishlist"
                 THEN [toggling EXCEPT !.outcome = o, !.pc = pc]
                 ELSE toggling

\* The handler awaiting call c ends: its activation is gone; o is "done"
\* after the success toast, which addToCart follows with setCartOpen(true),
\* and "failed" after the toast of the catch block.
ends(c, o) ==
  /\ calls' = [calls EXCEPT ![c] = IdleCall]
  /\ callers' = [callers EXCEPT ![c] = NoCaller]
  /\ tracked(c, o, "idle")
  /\ cartOpen' = (cartOpen \/ (o = "done" /\ callers[c].fn = "addToCart"))

\* The handler runs on from await api.post(...) or from the await
\* api.get(...) of the fetchCart or fetchWishlist it awaits.  A POST that
\* succeeded is followed by that function, of the handler's render and so
\* with isLoggedIn true, up to its first await; one that failed ends in the
\* catch block.  A GET that succeeded goes on to its body; one that failed
\* is caught inside the function, and the handler ends as after a success.
MutationReturn(c) ==
  LET ok == calls[c].pc = "done" /\ IsOk(calls[c].res.status)
      isAdd == callers[c].fn = "addToCart"
  IN
  /\ Delivered
  /\ Returned(c)
  /\ callers[c].pc \in {"post", "get"}
  /\ IF callers[c].pc = "post"
     THEN IF ok
          THEN /\ calls' = [calls EXCEPT ![c] =
                   firstAttempt(IF isAdd THEN CartRequest ELSE WishlistRequest,
                                localStorage)]
               /\ callers' = [callers EXCEPT ![c].pc = "get"]
               /\ fetched' = IF isAdd
                    THEN [fetched EXCEPT !.cart = localStorage.accessToken]
                    ELSE [fetched EXCEPT !.wishlist = localStorage.accessToken]
               /\ tracked(c, "posted", "get")
               /\ UNCHANGED << cartOpen, renderPending >>
          ELSE /\ ends(c, "failed")
               /\ UNCHANGED << fetched, renderPending >>
     ELSE IF ok
          THEN /\ callers' = [callers EXCEPT ![c].pc = "getBody"]
               /\ UNCHANGED << calls, fetched, adding, toggling, cartOpen,
                               renderPending >>
          ELSE /\ ends(c, "done")
               /\ renderPending' = (renderPending \/ cartOpen' # cartOpen)
               /\ UNCHANGED fetched
  /\ noLogout
  /\ UNCHANGED << localStorage, authChangeEvents, logoutClicks, issued, auth,
                  authSubmits, user, cart, wishlist, authModalOpen,
                  isLoggedIn, handled, fetchInitialData, search,
                  debouncedSearch, timers, quiet, selectedCategory, sort,
                  page, pages, products, loads, loading >>

\* The body of the GET has been read (read: setCart / setWishlist with its
\* items) or could not be read (a toast), and the handler ends.
MutationBody(c, items, read) ==
  /\ Settled
  /\ callers[c].pc = "getBody"
  /\ ends(c, "done")
  /\ IF read
     THEN /\ IF callers[c].fn = "addToCart"
             THEN cart' = items /\ UNCHANGED wishlist
             ELSE wishlist' = items /\ UNCHANGED cart
          /\ renderPending' = TRUE
     ELSE /\ items = << >>
          /\ renderPending' = (renderPending \/ cartOpen' # cartOpen)
          /\ UNCHANGED << cart, wishlist >>
  /\ noLogout
  /\ UNCHANGED << localStorage, authChangeEvents, logoutClicks, issued, auth,
                  authSubmits, user, authModalOpen, isLoggedIn, handled,
                  fetchInitialData, fetched, search, debouncedSearch, timers,
                  quiet, selectedCategory, sort, page, pages, products, loads,
                  loading >>

\* App with its cart and wishlist buttons.
CartNext ==
  \/ HandleAuthChange
  \/ \E c \in UiSlots : Return(c)
  \/ \E c \in UiSlots : UiFirstAnswer(c) /\ Within(CartCalls, CartLogouts)
  \/ \E c \in UiSlots, items \in Lists : Body(c, items)
  \/ \E c \in UiSlots : BodyError(c)
  \/ \E b \in BOOLEAN, ok \in BOOLEAN :
       Categories(b, ok) /\ Within(CartCalls, CartLogouts)
  \/ Render
  \/ UiLogoutClick /\ Within(CartCalls, CartLogouts)
  \/ \E product \in Products :
       AddToCart(product) /\ Within(CartCalls, CartLogouts)
  \/ \E product \in Products :
       ToggleWishlist(product) /\ Within(CartCalls, CartLogouts)
  \/ \E product \in Products :
       MoveToCart(product) /\ Within(CartCalls, CartLogouts)
  \/ \E c \in UiSlots : MutationAnswer(c) /\ Within(CartCalls, CartLogouts)
  \/ \E c \in UiSlots : MutationReturn(c)
  \/ \E c \in UiSlots, items \in Lists, read \in BOOLEAN :
       MutationBody(c, items, read)

SpecCart == Init /\ [][CartNext]_vars

\* ------------------------------------------------------------------ claims
\* The Authorization header a request carries for a token.
Bearer(token) == IF token # NoToken THEN << "Bearer", token >> ELSE << >>

\* The call has got past its refresh: the refresh call was answered with a
\* success and its body, the token pair, was read.
Refreshed(k) ==
  /\ k.first = Unauthorized
  /\ IsOk(k.refreshStatus)
  /\ k.pc \in {"retry", "done", "failed"}
  /\ k.cause # "refresh_body"

Finished(k) == k.pc \in {"done", "failed"}

\* C1: a call sends the original request at most twice, the first time with
\* the access token stored when the call started, a second time only after
\* a first response of status 401 and a successful refresh, and it calls
\* the refresh endpoint at most once.
C1_AtMostTwoSends ==
  \A c \in Calls :
    LET k == calls[c] IN
    /\ Len(k.sent) <= 2
    /\ Len(k.refreshSent) <= 1
    /\ k.pc # "idle" => /\ Len(k.sent) >= 1
                        /\ k.sent[1].authorization
                             = Bearer(k.sent[1].stored.accessToken)
    /\ Len(k.sent) = 2 => /\ k.first = Unauthorized
                          /\ Len(k.refreshSent) = 1
                          /\ Refreshed(k)

C1_Witness ==
  \E c \in Calls : calls[c].pc = "done" /\ Len(calls[c].sent) = 2
                   /\ calls[c].res.status = Unauthorized

\* C2: after a 401 with a refresh token stored and a successful refresh,
\* exactly two requests to the original endpoint have been sent, and the
\* storage held the token pair of the refresh response when the second one
\* was sent.
C2_RetryAfterPersist ==
  \A c \in Calls :
    LET k == calls[c] IN
    (k.refreshToken # NoToken /\ Refreshed(k)) =>
      /\ Len(k.sent) = 2
      /\ k.sent[2].stored = [accessToken |-> k.data.access_token,
                             refreshToken |-> k.data.refresh_token]
      /\ k.data # NoData

C2_Witness ==
  \E c \in Calls :
    /\ calls[c].pc = "done" /\ calls[c].res.attempt = 2
    /\ calls[c].sent[2].stored.accessToken # calls[c].sent[1].stored.accessToken

\* C3: a call whose first response is not a 401 sends exactly one request,
\* makes no refresh call and returns that first response, with or without
\* a stored access token.
C3_NonUnauthorizedPassThrough ==
  \A c \in Calls :
    LET k == calls[c] IN
    (k.first # 0 /\ k.first # Unauthorized) =>
      /\ k.pc = "done"
      /\ Len(k.sent) = 1
      /\ k.refreshSent = << >>
      /\ k.res = [status |-> k.first, attempt |-> 1]
      /\ k.error = "none"

C3_Witness ==
  /\ \E c \in Calls : calls[c].first = 500 /\ calls[c].accessToken = NoToken
  /\ \E c \in Calls : calls[c].first = 200 /\ calls[c].accessToken # NoToken

\* The step of call c in which its first response, a 401, arrives.
FirstUnauthorizedStep(c) ==
  calls[c].pc = "attempt" /\ calls'[c].first = Unauthorized

\* C4: a 401 with no refresh token stored makes the call log out (the three
\* keys are absent right after), fail with the session-expired error, call
\* the refresh endpoint zero times and never send the request again.
C4_NoRefreshToken ==
  [][\A c \in Calls :
       /\ (FirstUnauthorizedStep(c) /\ localStorage.refreshToken = NoToken) =>
            /\ localStorage' = EmptyStorage
            /\ logoutCalls' = logoutCalls + 1
            /\ calls'[c].pc = "failed"
            /\ calls'[c].error = "session_expired"
            /\ calls'[c].refreshSent = << >>
            /\ Len(calls'[c].sent) = 1
       /\ calls[c].pc = "failed" => calls'[c] = calls[c]]_vars

C4_Witness ==
  \E c \in Calls :
    /\ calls[c].pc = "failed" /\ calls[c].first = Unauthorized
    /\ calls[c].refreshSent = << >>
    /\ calls[c].error = "session_expired"
    /\ localStorage = EmptyStorage /\ authChangeEvents = 1

\* The step of call c in which its refresh call fails, by a response of a
\* non-success status or by a rejected fetch.
RefreshFailureStep(c) ==
  /\ calls[c].pc = "refresh"
  /\ calls'[c].cause \in {"refresh_status", "refresh_network"}

\* C5: a refresh call that fails, by status or by network error, makes the
\* call log out (the three keys are absent right after) and fail with the
\* session-expired error without retrying the request; the two kinds of
\* failure leave the same outcome.
C5_RefreshFailure ==
  [][\A c \in Calls :
       /\ (calls[c].pc = "refresh" /\ calls'[c].pc # "refresh") =>
            \/ calls'[c].pc = "refreshJson" /\ IsOk(calls'[c].refreshStatus)
            \/ RefreshFailureStep(c)
       /\ RefreshFailureStep(c) =>
            /\ localStorage' = EmptyStorage
            /\ logoutCalls' = logoutCalls + 1
            /\ calls'[c].pc = "failed"
            /\ calls'[c].error = "session_expired"
            /\ calls'[c].res = NoResponse
            /\ calls'[c].sent = calls[c].sent /\ Len(calls[c].sent) = 1
       /\ calls[c].pc = "failed" => calls'[c] = calls[c]]_vars

C5_Witness ==
  /\ \E c \in Calls : calls[c].cause = "refresh_status"
  /\ \E c \in Calls : calls[c].cause = "refresh_network"

\* C6: a retried request that is itself answered with 401 ends the call
\* with that response: no second refresh call, no logout, the tokens the
\* refresh stored stay in storage, and a call never goes from the retry
\* back to the refresh.
C6_RetryIsTerminal ==
  [][\A c \in Calls :
       calls[c].pc = "retry" =>
         /\ calls'[c].pc \in {"retry", "done", "failed"}
         /\ calls'[c].refreshSent = calls[c].refreshSent
         /\ calls'[c].sent = calls[c].sent
         /\ calls'[c].pc = "done" =>
              /\ calls'[c].res.attempt = 2
              /\ calls'[c].res.status \in Statuses
              /\ calls'[c].logouts = 0
              /\ localStorage' = localStorage
              /\ logoutCalls' = logoutCalls
              /\ authChangeEvents' = authChangeEvents]_vars

C6_Witness ==
  \E c \in Calls :
    /\ calls[c].pc = "done"
    /\ calls[c].res = [status |-> Unauthorized, attempt |-> 2]
    /\ Len(calls[c].refreshSent) = 1
    /\ localStorage.accessToken = calls[c].data.access_token
    /\ localStorage.refreshToken = calls[c].data.refresh_token

\* C7 as claimed: a call fails only when the refresh token is absent after
\* a 401, when the refresh call is answered with a non-success status, or
\* when the refresh call meets a network failure.
C7_FailsOnlyInRefresh ==
  \A c \in Calls :
    calls[c].pc = "failed" =>
      /\ calls[c].first = Unauthorized
      /\ Len(calls[c].sent) = 1
      /\ calls[c].cause \in {"no_refresh_token", "refresh_status",
                             "refresh_network"}

\* C7 amended: a call fails exactly when a fetch of its first attempt, of
\* its refresh call or of its retry is rejected, when the refresh token is
\* absent after a 401, or when the refresh call is answered with a
\* non-success status or an unreadable body; every answered first attempt
\* other than a 401 and every answered retry is returned.
C7_FailureCases ==
  \A c \in Calls :
    LET k == calls[c] IN
    /\ k.pc = "failed" =>
         /\ k.res = NoResponse
         /\ \/ k.first = 0 /\ k.error = "network" /\ k.cause = "first_network"
            \/ /\ k.first = Unauthorized /\ k.error = "session_expired"
               /\ \/ k.refreshSent = << >> /\ k.cause = "no_refresh_token"
                  \/ /\ Len(k.refreshSent) = 1 /\ Len(k.sent) = 1
                     /\ \/ ~IsOk(k.refreshStatus) /\ k.refreshStatus # 0
                           /\ k.cause = "refresh_status"
                        \/ k.refreshStatus = 0 /\ k.cause = "refresh_network"
                        \/ IsOk(k.refreshStatus) /\ k.cause = "refresh_body"
                  \/ Len(k.sent) = 2 /\ k.cause = "retry_network"
    /\ k.pc = "done" =>
         /\ k.first # 0
         /\ k.error = "none" /\ k.cause = "none"
         /\ k.res.status \in Statuses
         /\ k.res.attempt = Len(k.sent)
    /\ (k.first # 0 /\ k.first # Unauthorized) => k.pc = "done"

C7_Witness ==
  /\ \E c \in Calls : calls[c].pc = "failed" /\ calls[c].cause = "first_network"
  /\ \E c \in Calls : calls[c].pc = "failed" /\ calls[c].cause = "retry_network"

\* C8 as claimed: after a 401 and a successful refresh the call neither
\* fails nor logs out, whatever becomes of the retried request.
C8_RefreshedCallNeverFails ==
  \A c \in Calls :
    LET k == calls[c] IN
    (k.refreshToken # NoToken /\ Refreshed(k)) =>
      /\ k.pc # "failed"
      /\ k.logouts = 0

\* A step that invokes api.logout.
LogoutStep == logoutCalls' # logoutCalls

\* C9: every invocation of api.logout leaves the three keys absent and
\* dispatches exactly one authChange event, also when it follows another
\* invocation and the storage is already empty.
C9_LogoutClears ==
  [][LogoutStep =>
       /\ logoutCalls' = logoutCalls + 1
       /\ localStorage' = EmptyStorage
       /\ authChangeEvents' = authChangeEvents + 1]_vars

\* Two invocations in a row: one call was started, and the only two steps
\* taken since are a click on Logout and the call's forced logout.
C9_Witness ==
  /\ logoutCalls = 2 /\ logoutClicks = 1 /\ authChangeEvents = 2
  /\ calls[1].pc = "failed" /\ calls[1].cause = "no_refresh_token"
  /\ \A c \in Calls \ {1} : calls[c].pc = "idle"
  /\ localStorage = EmptyStorage

\* C10: every call that gets a 401 while a refresh token is stored sends
\* its own refresh call at once, carrying the refresh token stored at that
\* moment, whatever the other calls are doing; two such calls make two
\* refresh calls.
C10_IndependentRefresh ==
  [][\A c \in Calls :
       (FirstUnauthorizedStep(c) /\ localStorage.refreshToken # NoToken) =>
         /\ calls'[c].pc = "refresh"
         /\ calls'[c].refreshSent
              = << refreshRequest(localStorage.refreshToken) >>
         /\ \A d \in Calls \ {c} : calls'[d] = calls[d]]_vars

C10_Witness ==
  \E c, d \in Calls :
    /\ c # d
    /\ calls[c].pc = "refresh" /\ calls[d].pc = "refresh"
    /\ calls[c].refreshSent = calls[d].refreshSent
    /\ Len(calls[c].refreshSent) = 1

\* C11: a call reads the access token once, when it starts, and the refresh
\* token only when its 401 arrives; a call whose 401 arrives when another
\* call's refresh has already stored a newer token pair sends no retry with
\* the stored access token but its own refresh call, carrying the refresh
\* token stored at that moment.
C11_StaleTokenRefreshes ==
  [][\A c \in Calls :
       /\ (calls[c].pc = "idle" /\ calls'[c].pc # "idle") =>
            calls'[c].accessToken = localStorage.accessToken
       /\ calls[c].pc # "idle" => calls'[c].accessToken = calls[c].accessToken
       /\ calls'[c].refreshToken # calls[c].refreshToken =>
            /\ FirstUnauthorizedStep(c)
            /\ calls'[c].refreshToken = localStorage.refreshToken
       /\ ( /\ FirstUnauthorizedStep(c)
            /\ localStorage.refreshToken # NoToken
            /\ localStorage.accessToken # calls[c].accessToken ) =>
            /\ calls'[c].sent = calls[c].sent
            /\ calls'[c].pc = "refresh"
            /\ calls'[c].refreshSent
                 = << refreshRequest(localStorage.refreshToken) >>]_vars

\* Call c started with the old token, call d has refreshed since, and c's
\* refresh call carries the refresh token d's refresh stored.
C11_Witness ==
  \E c, d \in Calls :
    /\ c # d
    /\ calls[d].pc \in {"retry", "done"} /\ Len(calls[d].sent) = 2
    /\ calls[c].pc = "refresh" /\ Len(calls[c].sent) = 1
    /\ calls[c].accessToken # calls[d].data.access_token
    /\ calls[c].refreshSent
         = << refreshRequest(calls[d].data.refresh_token) >>

\* C14: on the refresh path the refresh call carries the refresh token read
\* when the 401 arrived (the one stored at call start when nothing else
\* touched the storage), the storage holds exactly the pair of the refresh
\* response, and the retry carries the returned access token as its bearer
\* token with the method, path and body of the original.
C14_RefreshDataFlow ==
  \A c \in Calls :
    LET k == calls[c] IN
    Len(k.sent) = 2 =>
      /\ k.refreshToken # NoToken
      /\ k.refreshSent = << [method |-> "POST", endpoint |-> "/users/refresh",
                             refresh_token |-> k.refreshToken] >>
      /\ ((\A d \in Calls \ {c} : calls[d].pc = "idle") /\ logoutClicks = 0) =>
           k.refreshSent[1].refresh_token = k.sent[1].stored.refreshToken
      /\ k.sent[2].stored = [accessToken |-> k.data.access_token,
                             refreshToken |-> k.data.refresh_token]
      /\ k.sent[2].authorization = << "Bearer", k.data.access_token >>
      /\ k.sent[2].method = k.sent[1].method /\ k.sent[2].method = k.req.method
      /\ k.sent[2].endpoint = k.sent[1].endpoint
      /\ k.sent[2].endpoint = k.req.endpoint
      /\ k.sent[2].body = k.sent[1].body /\ k.sent[2].body = k.req.body

\* The scenario with T1 = R1 = 1 and T2 = R2 = 2.
C14_Witness ==
  /\ calls[1].pc = "retry"
  /\ calls[1].req = [method |-> "GET", endpoint |-> "/cart", body |-> "null"]
  /\ calls[1].sent[1].authorization = << "Bearer", 1 >>
  /\ calls[1].refreshSent[1].refresh_token = 1
  /\ calls[1].data = [access_token |-> 2, refresh_token |-> 2]
  /\ localStorage.accessToken = 2 /\ localStorage.refreshToken = 2
  /\ calls[1].sent[2].authorization = << "Bearer", 2 >>
  /\ calls[1].sent[2].endpoint = "/cart"

\* C15: a request to the original endpoint carries an Authorization bearer
\* header exactly when its attempt was given a token: the first attempt the
\* access token stored at call start, or no header when none was stored;
\* the retry the access token of the refresh response.
C15_BearerIffToken ==
  \A c \in Calls :
    LET k == calls[c] IN
    /\ Len(k.sent) >= 1 =>
         /\ k.sent[1].stored.accessToken = NoToken =>
              k.sent[1].authorization = << >>
         /\ k.sent[1].stored.accessToken # NoToken =>
              k.sent[1].authorization
                = << "Bearer", k.sent[1].stored.accessToken >>
    /\ Len(k.sent) = 2 =>
         /\ k.data.access_token # NoToken
         /\ k.sent[2].authorization = << "Bearer", k.data.access_token >>

C15_Witness ==
  /\ \E c \in Calls : /\ calls[c].pc = "done" /\ calls[c].res.status = 200
                      /\ calls[c].sent = << [method |-> "GET",
                            endpoint |-> "/cart", body |-> "null",
                            authorization |-> << >>,
                            stored |-> [accessToken |-> NoToken,
                                        refreshToken |-> NoToken]] >>
  /\ \E c \in Calls : /\ Len(calls[c].sent) >= 1
                      /\ calls[c].sent[1].authorization # << >>

\* The session state a gateway call can touch.
session == << localStorage, authChangeEvents, logoutCalls >>

\* C16 as claimed: a call that ends with a failure response (a 4xx / 5xx
\* that is not the 401 of a first attempt) has changed no session state.
\* Stated for a call that ran alone, so that every change is its own.
C16_FailureLeavesSession ==
  \A c \in Calls :
    LET k == calls[c] IN
    ( /\ k.pc = "done" /\ ~IsOk(k.res.status)
      /\ \A d \in Calls \ {c} : calls[d].pc = "idle"
      /\ logoutClicks = 0 ) =>
      /\ localStorage.accessToken = k.sent[1].stored.accessToken
      /\ localStorage.refreshToken = k.sent[1].stored.refreshToken
      /\ authChangeEvents = 0

\* C16 amended: a call that ends with a failure response to its first
\* attempt has changed no session state; a call that ends with a failure
\* response to its retry has replaced the two tokens by the refreshed pair
\* and changed nothing else: user is kept, no logout, no authChange.
C16_FailureEffects ==
  [][\A c \in Calls :
       /\ (calls[c].pc = "idle" /\ calls'[c].pc # "idle") => UNCHANGED session
       /\ (calls[c].pc = "attempt" /\ calls'[c].first \notin {0, Unauthorized})
            => calls'[c].pc = "done"
       /\ (calls[c].pc = "attempt" /\ calls'[c].pc = "done") =>
            /\ UNCHANGED session
            /\ calls'[c].res = [status |-> calls'[c].first, attempt |-> 1]
       /\ (calls[c].pc # "done" /\ calls'[c].pc = "done") =>
            calls[c].pc \in {"attempt", "retry"}
       /\ (calls[c].pc = "retry" /\ calls'[c].pc = "done") => UNCHANGED session
       /\ (calls[c].pc # "retry" /\ calls'[c].pc = "retry") =>
            /\ calls[c].pc = "refreshJson"
            /\ localStorage' =
                 [localStorage EXCEPT
                    !.accessToken = calls[c].data.access_token,
                    !.refreshToken = calls[c].data.refresh_token]
            /\ UNCHANGED << authChangeEvents, logoutCalls >>]_vars

C16_Witness ==
  /\ \E c \in Calls : /\ calls[c].pc = "done"
                      /\ calls[c].res = [status |-> 500, attempt |-> 2]
                      /\ localStorage.accessToken = calls[c].data.access_token
                      /\ localStorage.user # NoUser
  /\ \E c \in Calls : /\ calls[c].pc = "done"
                      /\ calls[c].res = [status |-> 500, attempt |-> 1]

\* The step of call c in which the fetch of its first attempt is rejected.
FirstTransportFailureStep(c) ==
  calls[c].pc = "attempt" /\ calls'[c].pc # "attempt" /\ calls'[c].first = 0

\* C17: a transport failure of the first attempt fails the call without
\* touching the session: no refresh call, no logout, storage unchanged.
C17_FirstTransportFailure ==
  [][\A c \in Calls :
       FirstTransportFailureStep(c) =>
         /\ calls'[c].pc = "failed"
         /\ calls'[c].error = "network"
         /\ calls'[c].res = NoResponse
         /\ calls'[c].refreshSent = << >>
         /\ calls'[c].logouts = 0
         /\ UNCHANGED session]_vars

C17_Witness ==
  \E c \in Calls :
    /\ calls[c].pc = "failed" /\ calls[c].first = 0
    /\ calls[c].accessToken # NoToken
    /\ localStorage.accessToken = calls[c].accessToken
    /\ localStorage.user # NoUser

\* The network calls a call has issued: attempts and refresh calls.
NetworkCalls(k) == Len(k.sent) + Len(k.refreshSent)

\* C18: when every issued network call is eventually answered or fails,
\* every started call eventually ends, returning a response or failing,
\* and it never issues more than three network calls.
C18_CallTerminates ==
  \A c \in Calls :
    (calls[c].pc # "idle") ~>
       (Finished(calls[c]) /\ NetworkCalls(calls[c]) <= 3)

C18_Witness ==
  \E c \in Calls : Finished(calls[c]) /\ NetworkCalls(calls[c]) = 3

\* C12: whenever the user key is present the two tokens are present too,
\* under any interleaving of logins, logouts and gateway calls.
C12_UserImpliesTokens ==
  localStorage.user # NoUser =>
    (localStorage.accessToken # NoToken /\ localStorage.refreshToken # NoToken)

\* A login after a logout while a call is under way.
C12_Witness ==
  /\ localStorage.user # NoUser
  /\ auth.outcome = "login"
  /\ logoutCalls >= 1
  /\ \E c \in Calls : calls[c].pc # "idle"

\* The step in which an activation of handleAuth ends.
AuthEndStep == auth.pc # "idle" /\ auth'.pc = "idle"

\* C13: a successful login stores the two tokens and the user (username,
\* or the email when the response has none) and dispatches authChange once;
\* every other step of handleAuth (a successful registration, a failed
\* login or registration) leaves the three keys alone and dispatches
\* nothing.
C13_LoginCreatesCredentials ==
  [][/\ (AuthEndStep /\ auth'.outcome = "login") =>
          /\ auth.mode = "login" /\ auth.pc = "json"
          /\ auth.data.access_token # NoToken
          /\ localStorage' =
               [accessToken |-> auth.data.access_token,
                refreshToken |-> auth.data.refresh_token,
                user |-> IF auth.username # "" THEN auth.username
                                               ELSE auth.email]
          /\ authChangeEvents' = authChangeEvents + 1
     /\ (auth' # auth /\ ~(AuthEndStep /\ auth'.outcome = "login")) =>
          UNCHANGED << localStorage, authChangeEvents >>
     /\ (AuthEndStep /\ auth.mode = "register") =>
          /\ auth'.outcome \in {"register", "failed"}
          /\ UNCHANGED << localStorage, authChangeEvents >>
     /\ (AuthEndStep /\ auth.mode = "login" /\ auth.pc = "json") =>
          auth'.outcome \in {"login", "failed"}]_vars

C13_Witness ==
  /\ auth.outcome = "login"
  /\ localStorage.user = "neo"
  /\ localStorage.accessToken = localStorage.refreshToken
  /\ localStorage.accessToken > 1

\* Nothing is under way: no call, no activation of fetchInitialData or
\* handleAuth, no event to handle, no render to come.
Quiescent ==
  /\ Settled
  /\ ~renderPending
  /\ \A c \in UiSlots : calls[c].pc = "idle"
  /\ \A b \in BOOLEAN : fetchInitialData[b] = 0
  /\ auth.pc = "idle"

\* C19 (as claimed): after a logout, user-initiated or forced, once every
\* request has completed and nothing is left to run, no user is displayed
\* and the displayed cart and wishlist are empty.
C19_LogoutResynchronizes ==
  (logoutCalls > 0 /\ localStorage = EmptyStorage /\ Quiescent) =>
    (user = NoUser /\ cart = << >> /\ wishlist = << >>)

\* The last submission was a successful login, and the access token it
\* stored is still the stored one.
LoggedIn ==
  /\ auth.outcome = "login"
  /\ localStorage.accessToken = auth.data.access_token

\* Since that login a GET /cart and a GET /wishlist have been sent with
\* the access token it stored.
FetchedBoth ==
  /\ auth.outcome = "login"
  /\ fetched.cart = auth.data.access_token
  /\ fetched.wishlist = auth.data.access_token

\* The access token the login stored has been removed or replaced.
SessionGone ==
  /\ auth.outcome = "login"
  /\ localStorage.accessToken # auth.data.access_token

\* C20 (as claimed): after a successful login the displayed user is the
\* stored one and a GET /cart and a GET /wishlist carrying the access token
\* the login stored are eventually issued.
C20_LoginFetches ==
  LoggedIn ~> (user = localStorage.user /\ FetchedBoth)

\* C20 (amended): once handleAuthChange has run the displayed user is the
\* stored one, and after a successful login a GET /cart and a GET /wishlist
\* carrying the access token the login stored are eventually issued unless
\* that token is removed or replaced before they are sent.
C20_LoginFetchesUnlessCleared ==
  /\ [](Delivered => user = localStorage.user)
  /\ LoggedIn ~> (FetchedBoth \/ SessionGone)

\* Both requests have been sent with the token of the login, by the
\* fetchInitialData of a later render: the listener ran while isLoggedIn
\* was false and sent nothing.
C20_Witness ==
  /\ LoggedIn
  /\ FetchedBoth
  /\ user = localStorage.user
  /\ \E c \in UiSlots : callers[c].fn = "fetchWishlist" /\ callers[c].awaited

\* Neither token key is in storage.
TokensAbsent ==
  localStorage.accessToken = NoToken /\ localStorage.refreshToken = NoToken

\* The step in which a successful login stores its session.
LoginStoredStep ==
  auth.pc = "json" /\ auth.mode = "login" /\ auth'.outcome = "login"

\* C23: once a click on Logout has cleared storage, no access or refresh
\* token is written to storage again except by a successful login, also
\* when a call that got its 401 before the click has its refresh call in
\* flight.
C23_NoTokenAfterLogout ==
  [][(logoutClicks > 0 /\ TokensAbsent /\ ~TokensAbsent') => LoginStoredStep]_vars

\* The step in which the refresh of call c fails (its response, its fetch
\* or its body) and the catch block logs out.
ForcedLogoutStep(c) ==
  /\ calls[c].pc \in {"refresh", "refreshJson"}
  /\ calls'[c].pc = "failed"
  /\ logoutCalls' = logoutCalls + 1

\* Storage holds a token pair written after call c read its refresh token.
NewerStored(c) ==
  localStorage.refreshToken \notin {NoToken, calls[c].refreshToken}

\* C24: the forced logout of a call whose refresh fails does not erase a
\* token pair that was stored (by a login or by the refresh of another call)
\* after that call read its refresh token.
C24_ForcedLogoutKeepsNewer ==
  [][\A c \in Calls :
       (ForcedLogoutStep(c) /\ NewerStored(c)) =>
         /\ localStorage'.accessToken = localStorage.accessToken
         /\ localStorage'.refreshToken = localStorage.refreshToken]_vars

\* C25: the stored access token and refresh token always come from one and
\* the same login or refresh response (a response carries the pair n, n),
\* or both are absent.
C25_TokenPairFromOneResponse ==
  localStorage.accessToken = localStorage.refreshToken

\* A login has stored its pair over the pair a refresh stored, while the
\* refresh of another call is still in flight.
C25_Witness ==
  /\ auth.outcome = "login"
  /\ localStorage.accessToken = auth.data.access_token
  /\ \E c \in 1..PairCalls :
       /\ calls[c].pc \in {"retry", "done"} /\ calls[c].data # NoData
       /\ calls[c].data.access_token < auth.data.access_token
  /\ \E c \in 1..PairCalls : calls[c].pc = "refresh"

\* The first attempt of call c, sent without a token, is in flight.
TokenlessInFlight(c) ==
  /\ callers[c].pc = "request"
  /\ calls[c].pc = "attempt"
  /\ calls[c].sent[1].authorization = << >>

\* Nothing under way will call a state setter of App: no activation of
\* fetchInitialData, no login, no response body being read, and every call
\* under way is a token-less first attempt, which the server refuses.
NothingRenders ==
  /\ ~renderPending
  /\ \A b \in BOOLEAN : fetchInitialData[b] = 0
  /\ auth.pc = "idle"
  /\ \A c \in UiSlots : calls[c].pc # "idle" => TokenlessInFlight(c)

\* C26: a logout triggers only a bounded cascade.  The token-less requests
\* that the listener sends with a stale isLoggedIn are in flight only while
\* something is left that renders App again and so replaces the listener by
\* one that sends nothing; otherwise each 401 they get invokes api.logout,
\* whose authChange makes the same listener send two more.
C26_BoundedCascade ==
  ~ /\ logoutCalls > 0
    /\ Delivered
    /\ TokensAbsent
    /\ isLoggedIn
    /\ NothingRenders
    /\ \E c \in UiSlots : TokenlessInFlight(c)

\* The query of the last call of loadProducts: the URL for the page and
\* the filters of the last render.
LatestQuery == productsUrl(page, selectedCategory, sort, debouncedSearch)

\* The step in which the only load left in flight ends with a response,
\* whose products and page count App then shows.
LastLoadShownStep ==
  /\ Len(loads) = 1
  /\ loads' = << >>
  /\ products' = loads[1]
  /\ pages' = pagesOf(loads[1])

\* C21: product loads started in quick succession may end in either order;
\* when the last of them has ended, the products and the page count shown
\* are those of the most recently issued query.
C21_LatestQueryShown ==
  [][LastLoadShownStep =>
       /\ products' = LatestQuery'
       /\ pages' = pagesOf(LatestQuery')]_vars

\* The search strings of the loads a step starts.
StartedSearches ==
  {loads'[i].search_str : i \in (Len(loads) + 1)..Len(loads')}

\* C22: useDebounce publishes a value only when the input has kept it for
\* the full delay; a change of the input clears the pending timeout, so at
\* most one is pending and it is for the current input; a load is started
\* only for the published value; and once the input stops changing the
\* published value becomes the last input and stays so.
C22_DebouncePublishes ==
  /\ [][/\ debouncedSearch' # debouncedSearch =>
             (quiet = Delay /\ debouncedSearch' = search)
        /\ Len(loads') > Len(loads) =>
             /\ debouncedSearch' # debouncedSearch
             /\ StartedSearches = {debouncedSearch'}]_vars
  /\ [](Cardinality(timers) <= 1 /\ \A t \in timers : t.value = search)
  /\ \A value \in SearchStrings :
       <>[](search = value) => <>[](debouncedSearch = value)

\* After the burst "" -> "a" -> "ab" the value "ab" has been published and
\* its load started, and no list for another search string was shown.
C22_Witness ==
  /\ search = "ab" /\ debouncedSearch = "ab"
  /\ \E i \in 1..Len(loads) : loads[i].search_str = "ab"
  /\ products.search_str = ""

\* The filters of the product list.
Filter == << debouncedSearch, selectedCategory, sort >>

\* The loads a step starts, in the order of their start.
Started == SubSeq(loads', Len(loads) + 1, Len(loads'))

\* C29: a step that changes the debounced search string, the category or
\* the sort order leaves the page at 1; it starts a load for the new filter
\* with the page shown so far and, if that was not 1, one for page 1.  Any
\* other load is started by the user's change of the page, for that page:
\* once the page has been reset, no request for another page is sent until
\* the user changes the page.
C29_PageReset ==
  [][/\ Filter' # Filter =>
          /\ page' = 1
          /\ Started = IF page = 1
                       THEN << LatestQuery' >>
                       ELSE << productsUrl(page, selectedCategory', sort',
                                           debouncedSearch'),
                               LatestQuery' >>
     /\ (Filter' = Filter /\ Len(loads') > Len(loads)) =>
          /\ page' # page
          /\ pages > 1
          /\ Started = << LatestQuery' >>
     /\ (Filter' = Filter /\ page' # page) => Len(loads') > Len(loads)]_vars

\* A category was selected on page 2: the page is 1 again and the two loads
\* of that change are in flight.
C29_Witness ==
  /\ page = 1
  /\ selectedCategory = "shoes"
  /\ loads = << productsUrl(2, "shoes", sort, debouncedSearch),
                productsUrl(1, "shoes", sort, debouncedSearch) >>

\* The step in which a click starts addToCart, which runs up to an early
\* return or to its first await.
AddStartStep ==
  /\ adding' # adding
  /\ adding'.by # ""
  /\ adding'.outcome \in {"none", "out_of_stock", "login"}

\* The step sends a POST /cart/add for the product.
AddSentStep(product) ==
  \E c \in UiSlots :
    /\ callers[c] = NoCaller
    /\ callers'[c] = [fn |-> "addToCart", awaited |-> FALSE, pc |-> "post"]
    /\ calls'[c].req = AddRequest(product.id)
    /\ Len(calls'[c].sent) = 1

\* No activation comes to await a POST /cart/add.
NoAddSentStep ==
  \A c \in UiSlots :
    callers'[c].fn = "addToCart" => callers[c].fn = "addToCart"

\* C27: addToCart sends no request and leaves the cart as it is when the
\* product's stock is 0 or less (and then does not open the dialog, also
\* without a session), and when isLoggedIn of the last render is false, in
\* which case it opens the login dialog; otherwise it sends POST /cart/add.
C27_AddToCartGuards ==
  [][AddStartStep =>
       LET product == adding'.product IN
       /\ product.stock <= 0 =>
            /\ adding'.outcome = "out_of_stock"
            /\ NoAddSentStep
            /\ cart' = cart
            /\ adding'.by = "add" =>
                 (authModalOpen' = authModalOpen /\ calls' = calls)
       /\ (product.stock > 0 /\ ~isLoggedIn) =>
            /\ adding'.outcome = "login"
            /\ NoAddSentStep
            /\ calls' = calls
            /\ cart' = cart
            /\ authModalOpen'
       /\ (product.stock > 0 /\ isLoggedIn) =>
            /\ adding'.pc = "post"
            /\ AddSentStep(product)
            /\ cart' = cart]_vars

\* Add was clicked for a product out of stock while no session was present:
\* the dialog is not shown.
C27_Witness ==
  /\ adding.by = "add"
  /\ adding.outcome = "out_of_stock"
  /\ ~isLoggedIn
  /\ ~authModalOpen

\* C28: 'Move to Cart' removes the product from the wishlist only if it was
\* added to the cart: the POST /wishlist/remove of the click is not answered
\* with success when addToCart sent no request (out of stock) or its request
\* failed.
C28_MoveOnlyIfAdded ==
  ~ /\ toggling.by = "move"
    /\ toggling.outcome \in {"posted", "done"}
    /\ adding.by = "move"
    /\ adding.outcome \in {"out_of_stock", "failed"}

====
